---- MODULE Spec2Model ----
(***************************************************************************)
(* Faikin estimated power (src/__init__.py): the per-unit state store,     *)
(* the energy-derived power estimator with its hold window, the compressor *)
(* fallback, the discovery announcement and the two MQTT handlers.         *)
(*                                                                         *)
(* Time is counted in quanta of 1/8 second, so that the 0.5 s floor of the *)
(* tick interval is 4 quanta, the wall clock reads multiples of 1/4 second  *)
(* (an interval shorter than the floor exists) and dt * (1 + f) is exact   *)
(* for margin factors that are multiples of 1/2.  Watt values are exact    *)
(* rationals <<n, d>>; the MQTT payload is the value rounded to one        *)
(* decimal place, counted in tenths of a watt.                             *)
(***************************************************************************)
EXTENDS Integers, Sequences, FiniteSets, TLC

VARIABLES
    cfg,        \* the app configuration, read once at start
    fleet,      \* the units that send messages
    _units,     \* the per-unit state store
    now,        \* the last reading of the wall clock
    mqtt,       \* what the last handler invocation published, in order
    ev,         \* the last message handled
    prev,       \* _units as it was before the last message
    seen,       \* the units a message has been handled for
    announced,  \* per unit, how many discovery records were published
    zeros,      \* per unit, how many expiry zeros were published since the
                \* stored reading last changed
    beat        \* flips with each repeated-reading message of LiveSpec, so that
                \* a message that changes nothing else is still a step

vars == <<cfg, fleet, _units, now, mqtt, ev, prev, seen, announced, zeros, beat>>

(* ------------------------------ bounds -------------------------------- *)
\* The wall clock is read at 2^1, 2^2 .. 2^MaxTick quanta: at growing gaps.
MaxTick == 4
\* The largest lifetime-energy reading a message carries.
MaxWh == 1

(* --------------------------- units of measure -------------------------- *)
\* max(0.5, ...) of the tick interval, in quanta of 1/8 s.
DtFloor == 4
QuantaPerSecond == 2 * DtFloor
\* The wall clock is read at multiples of 1/4 s.
ClockStep == DtFloor \div 2
\* dwh * 3600.0 / dt
SecondsPerHour == 3600
\* float(comp_hz) * 50.0
WattsPerComp == 50

(* ------------------------------ values --------------------------------- *)
Units == {"u1", "u2"}

None == <<>>
Some(v) == <<v>>
\* dict.get(key, default) on an optional entry
Get(opt, default) == IF opt = None THEN default ELSE opt[1]

RECURSIVE Gcd(_, _)
Gcd(a, b) == IF b = 0 THEN a ELSE Gcd(b, a % b)
Abs(x) == IF x < 0 THEN -x ELSE x
\* A float, as the exact rational n/d in lowest terms with d > 0.
Rat(n, d) ==
    LET s == IF d < 0 THEN -1 ELSE 1
        g == Gcd(Abs(n), Abs(d))
    IN  <<(s * n) \div g, (s * d) \div g>>
RatLt(a, b) == a[1] * b[2] < b[1] * a[2]
RatMax(a, b) == IF RatLt(a, b) THEN b ELSE a
RatZero == <<0, 1>>

\* A payload field: absent, present and numeric (n/d), or present and not
\* convertible.
Absent == [k |-> "absent", n |-> 0, d |-> 1]
Bad == [k |-> "bad", n |-> 0, d |-> 1]
Num(n, d) == [k |-> "num", n |-> n, d |-> d]

\* int(x): truncation toward zero of a numeric field.
IntOf(f) == IF f.n >= 0 THEN f.n \div f.d ELSE -((-f.n) \div f.d)

\* round(float(watts), 1) of a non-negative value, in tenths of a watt:
\* round-half-to-even on the exact value.
RoundDeci(w) ==
    LET q == (10 * w[1]) \div w[2]
        r == (10 * w[1]) % w[2]
    IN  IF 2 * r > w[2] THEN q + 1
        ELSE IF 2 * r < w[2] THEN q
        ELSE IF q % 2 = 1 THEN q + 1 ELSE q

(* --------------------------- configuration ----------------------------- *)
\* margin_factor: not set (None), a number (twice its value, so 1 is 0.5),
\* or a value float() rejects.
FactorNone == [k |-> "none", twice |-> 0]
FactorBad == [k |-> "bad", twice |-> 0]
FactorNum(t) == [k |-> "num", twice |-> t]
\* margin_factor with margin_seconds (in quanta): factors 0.5 and -2, and the
\* additive margins 0.5 s and -1.5 s where there is no usable factor.
MarginChoices ==
    {<<FactorNum(1), DtFloor>>, <<FactorNum(-4), DtFloor>>,
     <<FactorNone, DtFloor>>, <<FactorBad, -3 * DtFloor>>}
\* min_power_w: disabled, or 2000.25 W
FloorChoices == {RatZero, Rat(8001, 4)}

Configs ==
    {[MARGIN_FACTOR |-> m[1], MARGIN_SECONDS_DEFAULT |-> m[2],
      MIN_POWER_W |-> fl, ENABLE_COMP_FALLBACK |-> fb] :
        m \in MarginChoices, fl \in FloorChoices, fb \in BOOLEAN}

(* ------------------------------ state store ---------------------------- *)
\* One entry of _units; present = FALSE is a missing key.
EmptyRec ==
    [present |-> FALSE, last_wh |-> None, last_ts |-> None,
     hold_until |-> None, last_w |-> None, discovered |-> FALSE]

\* _units.setdefault(unit, {})
SetDefault(U, unit) == [U EXCEPT ![unit].present = TRUE]

\* What one handler invocation has done so far: the store and the messages
\* it has published.
World(U, M) == [units |-> U, mqtt |-> M]

\* mqtt.publish of the discovery record (its device id) and of a wattage (the
\* payload in tenths of a watt, with the value _publish_power was called with).
ConfigMsg(unit, dev_id) ==
    [kind |-> "config", unit |-> unit, dev |-> dev_id, deci |-> 0, raw |-> RatZero]
PowerMsg(unit, deci, raw) ==
    [kind |-> "power", unit |-> unit, dev |-> "", deci |-> deci, raw |-> raw]

\* The topics the two kinds of message are published on, with
\* discovery_prefix at its default.
CfgTopic(unit) == "homeassistant/sensor/" \o unit \o "_power/config"
StateTopic(unit) == "faikin/" \o unit \o "/power_w"
Topic(m) == IF m.kind = "config" THEN CfgTopic(m.unit) ELSE StateTopic(m.unit)

(* ------------------------------ operations ----------------------------- *)
\* Mutant: the record is published and the unit is not marked discovered.
_discovery_NoFlag(W, unit, dev_id) ==
    LET U == SetDefault(W.units, unit)
    IN  IF U[unit].discovered
        THEN World(U, W.mqtt)
        ELSE World(U, Append(W.mqtt, ConfigMsg(unit, dev_id)))

\* _discovery(unit, dev_id): publish the discovery record once per unit.
_discovery(W, unit, dev_id) ==
    LET U == SetDefault(W.units, unit)
    IN  IF U[unit].discovered
        THEN World(U, W.mqtt)
        ELSE World([U EXCEPT ![unit].discovered = TRUE],
                   Append(W.mqtt, ConfigMsg(unit, dev_id)))

\* Mutant: the floor is applied to a zero wattage too.
ClampWatts_FloorOnZero(watts) ==
    LET w0 == IF RatLt(watts, RatZero) THEN RatZero ELSE watts
    IN  IF cfg.MIN_POWER_W # RatZero THEN RatMax(w0, cfg.MIN_POWER_W) ELSE w0

\* The value _publish_power publishes and remembers for a given argument.
ClampWatts(watts) ==
    LET w0 == IF RatLt(watts, RatZero) THEN RatZero ELSE watts
    IN  IF cfg.MIN_POWER_W # RatZero /\ RatLt(RatZero, w0)
        THEN RatMax(w0, cfg.MIN_POWER_W)
        ELSE w0

\* Mutant: the last published value is one value shared by all units.
_publish_power_Shared(W, unit, watts) ==
    LET w == ClampWatts(watts)
        U == SetDefault(W.units, unit)
    IN  World([u \in DOMAIN U |-> [U[u] EXCEPT !.last_w = Some(w)]],
              Append(W.mqtt, PowerMsg(unit, RoundDeci(w), watts)))

\* _publish_power(unit, watts)
_publish_power(W, unit, watts) ==
    LET w == ClampWatts(watts)
        U == SetDefault(W.units, unit)
    IN  World([U EXCEPT ![unit].last_w = Some(w)],
              Append(W.mqtt, PowerMsg(unit, RoundDeci(w), watts)))

\* Mutant: neither hold duration is clamped at 0.
_compute_hold_seconds_Unclamped(dt) ==
    IF cfg.MARGIN_FACTOR.k = "num"
    THEN (dt * (2 + cfg.MARGIN_FACTOR.twice)) \div 2
    ELSE dt + cfg.MARGIN_SECONDS_DEFAULT

\* _compute_hold_seconds(last_dt_seconds), in quanta
_compute_hold_seconds(dt) ==
    LET additive ==
            IF dt + cfg.MARGIN_SECONDS_DEFAULT > 0
            THEN dt + cfg.MARGIN_SECONDS_DEFAULT ELSE 0
        f == cfg.MARGIN_FACTOR
    IN  IF f.k = "num"
        THEN IF dt * (2 + f.twice) > 0 THEN (dt * (2 + f.twice)) \div 2 ELSE 0
        ELSE additive

\* (dwh * 3600.0) / dt, dt in quanta
TickWatts(dwh, dt) == Rat(dwh * SecondsPerHour * QuantaPerSecond, dt)

\* Mutant: the interval is floored at a quarter of a second.
TickDt_QuarterFloor(ts_now, last_ts) ==
    IF ts_now - last_ts > DtFloor THEN ts_now - last_ts ELSE ClockStep

\* max(0.5, float(ts_now - last_ts))
TickDt(ts_now, last_ts) ==
    IF ts_now - last_ts > DtFloor THEN ts_now - last_ts ELSE DtFloor

\* if last_wh is None or last_ts is None
FirstObservation(rec) == rec.last_wh = None \/ rec.last_ts = None

\* Mutant: the baseline reading is stored as 0, whatever the message read.
Baseline_ZeroReading(U, unit, wh_now, ts_now) ==
    [U EXCEPT ![unit].last_wh = Some(0),
              ![unit].last_ts = Some(ts_now),
              ![unit].hold_until = Some(0)]

\* Mutant: the baseline is replaced and the hold window is left as it was.
Baseline_KeepHold(U, unit, wh_now, ts_now) ==
    [U EXCEPT ![unit].last_wh = Some(wh_now),
              ![unit].last_ts = Some(ts_now)]

\* rec["last_wh"], rec["last_ts"], rec["hold_until"] = wh_now, ts_now, 0.0
Baseline(U, unit, wh_now, ts_now) ==
    [U EXCEPT ![unit].last_wh = Some(wh_now),
              ![unit].last_ts = Some(ts_now),
              ![unit].hold_until = Some(0)]

\* Mutant: the hold counts as expired at hold_until itself.
HoldExpired_Inclusive(hold_until, ts_now) == hold_until # 0 /\ ts_now >= hold_until

\* if hold_until and ts_now > hold_until
HoldExpired(hold_until, ts_now) == hold_until # 0 /\ ts_now > hold_until

\* Mutant: the hold no longer counts as active at hold_until itself.
HoldActive_Strict(hold_until, now_ts) == hold_until # 0 /\ now_ts < hold_until

\* if hold_until and now_ts <= hold_until
HoldActive(hold_until, now_ts) == hold_until # 0 /\ now_ts <= hold_until

\* Mutant: the expiry publishes 0 and leaves the hold window set.
NoChange_KeepHold(W, unit, ts_now) ==
    IF HoldExpired(Get(W.units[unit].hold_until, 0), ts_now)
    THEN _publish_power(W, unit, RatZero)
    ELSE W

\* Mutant: an unchanged reading refreshes the stored timestamp.
NoChange_TouchTs(W, unit, ts_now) ==
    IF HoldExpired(Get(W.units[unit].hold_until, 0), ts_now)
    THEN LET P == _publish_power(W, unit, RatZero)
         IN  World([P.units EXCEPT ![unit].hold_until = Some(0)], P.mqtt)
    ELSE World([W.units EXCEPT ![unit].last_ts = Some(ts_now)], W.mqtt)

\* The no-change branch: expire to 0 once the hold window has passed.
NoChange(W, unit, ts_now) ==
    IF HoldExpired(Get(W.units[unit].hold_until, 0), ts_now)
    THEN LET P == _publish_power(W, unit, RatZero)
         IN  World([P.units EXCEPT ![unit].hold_until = Some(0)], P.mqtt)
    ELSE W

\* Mutant: a tick publishes its estimate and sets no hold window.
Tick_NoHold(W, unit, wh_now, ts_now) ==
    LET rec == W.units[unit]
        dwh == wh_now - rec.last_wh[1]
        dt == TickDt(ts_now, rec.last_ts[1])
        U == [W.units EXCEPT ![unit].last_wh = Some(wh_now),
                             ![unit].last_ts = Some(ts_now)]
    IN  _publish_power(World(U, W.mqtt), unit, TickWatts(dwh, dt))

\* Mutant: the hold window is counted from the previous timestamp.
Tick_HoldFromLast(W, unit, wh_now, ts_now) ==
    LET rec == W.units[unit]
        dwh == wh_now - rec.last_wh[1]
        dt == TickDt(ts_now, rec.last_ts[1])
        U == [W.units EXCEPT ![unit].last_wh = Some(wh_now),
                             ![unit].last_ts = Some(ts_now),
                             ![unit].hold_until =
                                 Some(rec.last_ts[1] + _compute_hold_seconds(dt))]
    IN  _publish_power(World(U, W.mqtt), unit, TickWatts(dwh, dt))

\* The tick branch: power from dWh / dt, held for the hold window.
Tick(W, unit, wh_now, ts_now) ==
    LET rec == W.units[unit]
        dwh == wh_now - rec.last_wh[1]
        dt == TickDt(ts_now, rec.last_ts[1])
        U == [W.units EXCEPT ![unit].last_wh = Some(wh_now),
                             ![unit].last_ts = Some(ts_now),
                             ![unit].hold_until =
                                 Some(ts_now + _compute_hold_seconds(dt))]
    IN  _publish_power(World(U, W.mqtt), unit, TickWatts(dwh, dt))

\* _update_from_energy(unit, wh_now, ts_now)
_update_from_energy(W, unit, wh_now, ts_now) ==
    LET U == SetDefault(W.units, unit)
        rec == U[unit]
    IN  IF FirstObservation(rec)
        THEN _publish_power(World(Baseline(U, unit, wh_now, ts_now), W.mqtt), unit, RatZero)
        ELSE IF wh_now < rec.last_wh[1]
        THEN _publish_power(World(Baseline(U, unit, wh_now, ts_now), W.mqtt), unit, RatZero)
        ELSE IF wh_now = rec.last_wh[1]
        THEN NoChange(World(U, W.mqtt), unit, ts_now)
        ELSE Tick(World(U, W.mqtt), unit, wh_now, ts_now)

\* estimate_power_from_comp(comp_hz, fanfreq), comp_hz already a float
estimate_power_from_comp(comp, fan) ==
    IF ~RatLt(RatZero, comp)
    THEN RatZero
    ELSE RatMax(RatZero, Rat(comp[1] * WattsPerComp, comp[2]))

\* dev_id = str(payload_obj.get("id") or f"faikin-{unit}")
DevId(unit, id) == IF id = "" THEN "faikin-" \o unit ELSE id

\* Mutant: the discovery record is published after the update.
faikin_energy_tick_AnnounceLast(U, unit, id, wh, ts_now) ==
    IF wh.k # "num"
    THEN _discovery(World(U, <<>>), unit, DevId(unit, id))
    ELSE _discovery(_update_from_energy(World(U, <<>>), unit, IntOf(wh), ts_now),
                    unit, DevId(unit, id))

\* Mutant: 'Wh' is converted before the discovery record is published.
faikin_energy_tick_ParseFirst(U, unit, id, wh, ts_now) ==
    IF wh.k # "num"
    THEN World(U, <<>>)
    ELSE _update_from_energy(_discovery(World(U, <<>>), unit, DevId(unit, id)),
                             unit, IntOf(wh), ts_now)

\* The body of faikin_energy_tick for a payload that holds 'Wh'.
faikin_energy_tick(U, unit, id, wh, ts_now) ==
    LET D == _discovery(World(U, <<>>), unit, DevId(unit, id))
    IN  IF wh.k # "num"
        THEN D
        ELSE _update_from_energy(D, unit, IntOf(wh), ts_now)

\* comp and fanfreq as the try block of faikin_comp_estimate leaves them:
\* a field float() rejects zeroes comp and drops fan.
ParsedComp(comp, fan) ==
    IF comp.k = "bad" \/ fan.k = "bad" THEN RatZero
    ELSE IF comp.k = "absent" THEN RatZero
    ELSE Rat(comp.n, comp.d)

ParsedFan(comp, fan) ==
    IF comp.k = "bad" \/ fan.k = "bad" THEN None
    ELSE IF fan.k = "absent" THEN None
    ELSE Some(Rat(fan.n, fan.d))

\* Mutant: a fallback publish clears the hold window it found expired.
faikin_comp_estimate_ClearsHold(U, unit, id, comp, fan, now_ts) ==
    IF ~cfg.ENABLE_COMP_FALLBACK
    THEN World(U, <<>>)
    ELSE LET D == _discovery(World(U, <<>>), unit, DevId(unit, id))
             hold_until == Get(D.units[unit].hold_until, 0)
             P == _publish_power(D, unit,
                      estimate_power_from_comp(ParsedComp(comp, fan),
                                               ParsedFan(comp, fan)))
         IN  IF HoldActive(hold_until, now_ts)
             THEN D
             ELSE World([P.units EXCEPT ![unit].hold_until = Some(0)], P.mqtt)

\* The body of faikin_comp_estimate for a payload that holds 'comp' or
\* 'fanfreq'.
faikin_comp_estimate(U, unit, id, comp, fan, now_ts) ==
    IF ~cfg.ENABLE_COMP_FALLBACK
    THEN World(U, <<>>)
    ELSE LET D == _discovery(World(U, <<>>), unit, DevId(unit, id))
             hold_until == Get(D.units[unit].hold_until, 0)
         IN  IF HoldActive(hold_until, now_ts)
             THEN D
             ELSE _publish_power(D, unit,
                      estimate_power_from_comp(ParsedComp(comp, fan),
                                               ParsedFan(comp, fan)))

\* One payload that holds 'Wh' and 'comp' or 'fanfreq' satisfies both
\* triggers: both handlers run on it, each reading the wall clock as t, in
\* one order or the other.
EnergyThenComp(U, unit, id, wh, comp, fan, t) ==
    LET A == faikin_energy_tick(U, unit, id, wh, t)
        B == faikin_comp_estimate(A.units, unit, id, comp, fan, t)
    IN  World(B.units, A.mqtt \o B.mqtt)

CompThenEnergy(U, unit, id, wh, comp, fan, t) ==
    LET A == faikin_comp_estimate(U, unit, id, comp, fan, t)
        B == faikin_energy_tick(A.units, unit, id, wh, t)
    IN  World(B.units, A.mqtt \o B.mqtt)

(* ------------------------------ messages ------------------------------- *)
IdChoices == {"", "dev-A"}
\* The 'Wh' field: an integer, a float (MaxWh + 1/2), or a value int()
\* rejects.
WhChoices == {Num(n, 1) : n \in 0..MaxWh} \cup {Num(2 * MaxWh + 1, 2), Bad}
\* The 'comp' field.
CompChoices == {Absent, Bad, Num(1, 10)}
\* The 'fanfreq' field.
FanChoices == {Absent, Bad, Num(7, 1)}
\* The values datetime.now(timezone.utc).timestamp() returns, in quanta.
Times == {ClockStep ^ i : i \in 1..MaxTick}

\* The last message handled: the handler, the unit of its topic, whether its
\* fields could be converted, and the energy reading it carried.
Event(handler, unit, ok, wh) ==
    [handler |-> handler, unit |-> unit, ok |-> ok, wh |-> wh]

CountConfig(M, unit) ==
    Cardinality({i \in 1..Len(M) : M[i].kind = "config" /\ M[i].unit = unit})

(* ------------------------------ behaviour ------------------------------ *)
InitWith(c, f) ==
    /\ cfg = c
    /\ fleet = f
    /\ _units = [u \in Units |-> EmptyRec]
    /\ now = ClockStep
    /\ mqtt = <<>>
    /\ ev = Event("none", "", TRUE, 0)
    /\ prev = _units
    /\ seen = {}
    /\ announced = [u \in Units |-> 0]
    /\ zeros = [u \in Units |-> 0]
    /\ beat = FALSE

\* One unit on the broker, under every configuration.
Single == {"u1"}
Init == \E c \in Configs : InitWith(c, Single)

\* The expiry zeros of a unit after the energy handler has led from U to W:
\* none once the stored reading has changed, one more when a wattage was
\* published with the reading unchanged.
CountZeros(n, U, W, event, u) ==
    IF event.unit # u \/ event.handler # "energy" THEN n
    ELSE IF W.units[u].last_wh # U[u].last_wh THEN 0
    ELSE n + Cardinality({i \in 1..Len(W.mqtt) : W.mqtt[i].kind = "power"})

\* The outcome W of one handler invocation at time t becomes the state.
Handled(W, event, t) ==
    /\ _units' = W.units
    /\ mqtt' = W.mqtt
    /\ ev' = event
    /\ prev' = _units
    /\ now' = t
    /\ seen' = seen \cup {event.unit}
    /\ announced' = [u \in Units |-> announced[u] + CountConfig(W.mqtt, u)]
    /\ zeros' = [u \in Units |-> CountZeros(zeros[u], _units, W, event, u)]
    /\ UNCHANGED <<cfg, fleet>>

\* A message state/<unit> whose payload holds 'Wh' is delivered; the handler
\* reads the wall clock as t.
EnergyMsg(unit, id, wh, t) ==
    Handled(faikin_energy_tick(_units, unit, id, wh, t),
            Event("energy", unit, wh.k = "num", IF wh.k = "num" THEN IntOf(wh) ELSE 0),
            t)

EnergyAt(unit, t) ==
    \E id \in IdChoices, wh \in WhChoices : EnergyMsg(unit, id, wh, t)

\* A message state/<unit> whose payload holds 'comp' or 'fanfreq' is
\* delivered; the handler reads the wall clock as t.
CompAt(unit, t) ==
    \E id \in IdChoices, comp \in CompChoices, fan \in FanChoices :
        /\ comp.k # "absent" \/ fan.k # "absent"
        /\ Handled(faikin_comp_estimate(_units, unit, id, comp, fan, t),
                   Event("aux", unit, comp.k # "bad" /\ fan.k # "bad", 0),
                   t)

\* datetime.now is the wall clock: since the last reading it has moved on by
\* any amount, stood still, or been set back to the reading before.
Readings == {t \in Times : ClockStep * t >= now}

EnergyTick ==
    \E unit \in fleet, t \in Readings : EnergyAt(unit, t) /\ UNCHANGED beat

CompEstimate ==
    \E unit \in fleet, t \in Readings : CompAt(unit, t) /\ UNCHANGED beat

Next ==
    \/ EnergyTick
    \/ CompEstimate

Spec == Init /\ [][Next]_vars

(* ----------------- behaviour under a clock that advances ---------------- *)
\* The last clock reading of the model: it stands for the time from which on
\* only messages with an unchanged energy reading arrive.
LastTime == ClockStep ^ MaxTick

\* Every hold window ends before the last clock reading.
HoldWithinHorizon == \A u \in Units : Get(_units[u].hold_until, 0) < LastTime

\* Messages arrive while the clock does not go back; ticks whose hold window
\* would outlast the clock readings of the model are left out.
LiveEnergy ==
    \E unit \in fleet, t \in Times :
        /\ t >= now /\ t < LastTime
        /\ EnergyAt(unit, t)
        /\ HoldWithinHorizon'
        /\ UNCHANGED beat

LiveComp ==
    \E unit \in fleet, t \in Times :
        t >= now /\ t < LastTime /\ CompAt(unit, t) /\ UNCHANGED beat

\* A message of the unit reports the stored energy reading again, at a later
\* clock reading (at the last reading once the clock has reached it).
StaleEnergy(unit) ==
    /\ unit \in fleet
    /\ _units[unit].last_wh # None
    /\ \E id \in IdChoices, t \in Times :
           /\ t > now \/ (t = now /\ now = LastTime)
           /\ EnergyMsg(unit, id, Num(_units[unit].last_wh[1], 1), t)
    /\ beat' = ~beat

LiveNext ==
    \/ LiveEnergy
    \/ LiveComp
    \/ \E unit \in fleet : StaleEnergy(unit)

\* The configurations with the default margin factor, 0.5.
LiveInit ==
    \E c \in Configs : c.MARGIN_FACTOR = FactorNum(1) /\ InitWith(c, Single)

\* Messages with an unchanged energy reading keep arriving for every unit
\* that has reported one, while the clock keeps advancing.
LiveSpec ==
    LiveInit /\ [][LiveNext]_vars /\ \A unit \in Single : WF_vars(StaleEnergy(unit))

(* ------------- behaviour under every pairing of the margins ------------- *)
\* margin_seconds, in quanta: 0.5 s, -1.5 s and the default, 300 s.
HoldMargins == {DtFloor, -3 * DtFloor, 300 * QuantaPerSecond}
\* margin_factor: 0.5, -2, None, or a value float() rejects.
HoldFactors == {FactorNum(1), FactorNum(-4), FactorNone, FactorBad}

\* Every margin factor with every additive margin; no floor, no fallback.
HoldConfigs ==
    {[MARGIN_FACTOR |-> f, MARGIN_SECONDS_DEFAULT |-> m,
      MIN_POWER_W |-> RatZero, ENABLE_COMP_FALLBACK |-> FALSE] :
        f \in HoldFactors, m \in HoldMargins}

HoldInit == \E c \in HoldConfigs : InitWith(c, Single)

HoldSpec == HoldInit /\ [][Next]_vars

(* --------------------- behaviour with several units -------------------- *)
\* Margin factor 0.5, no floor, the fallback disabled or enabled.
FleetConfigs ==
    {[MARGIN_FACTOR |-> FactorNum(1), MARGIN_SECONDS_DEFAULT |-> DtFloor,
      MIN_POWER_W |-> RatZero, ENABLE_COMP_FALLBACK |-> fb] : fb \in BOOLEAN}

FleetInit == \E c \in FleetConfigs : InitWith(c, Units)

\* The wall clock stands still or moves on.
FleetReadings == {t \in Times : t >= now}
\* The 'Wh' field: the lowest reading, the highest, or a value int() rejects.
FleetWh == {Num(0, 1), Num(MaxWh, 1), Bad}
\* The 'comp' field; 'fanfreq' is absent.
FleetComp == {Bad, Num(1, 10)}

\* Messages of the units arrive in any order.
FleetEnergyTick ==
    \E unit \in fleet, t \in FleetReadings, wh \in FleetWh :
        EnergyMsg(unit, "", wh, t) /\ UNCHANGED beat

FleetCompEstimate ==
    \E unit \in fleet, t \in FleetReadings, comp \in FleetComp :
        /\ Handled(faikin_comp_estimate(_units, unit, "", comp, Absent, t),
                   Event("aux", unit, comp.k # "bad", 0),
                   t)
        /\ UNCHANGED beat

FleetNext ==
    \/ FleetEnergyTick
    \/ FleetCompEstimate

FleetSpec == FleetInit /\ [][FleetNext]_vars

(* ------------------------------- claims -------------------------------- *)
\* The wattage messages of the last handler invocation, and their payloads in
\* tenths of a watt.
Powers == SelectSeq(mqtt, LAMBDA m : m.kind = "power")
PowerDecis == [i \in 1..Len(Powers) |-> Powers[i].deci]
Configured == SelectSeq(mqtt, LAMBDA m : m.kind = "config")

\* The last message was an energy tick whose reading int() accepted.
Update == ev.handler = "energy" /\ ev.ok
\* ... for a unit with no stored reading.
UpdateFirst == Update /\ (prev[ev.unit].last_wh = None \/ prev[ev.unit].last_ts = None)
\* ... for a unit with a stored reading.
UpdateInitialized == Update /\ prev[ev.unit].last_wh # None /\ prev[ev.unit].last_ts # None
UpdateLower == UpdateInitialized /\ ev.wh < prev[ev.unit].last_wh[1]
UpdateSame == UpdateInitialized /\ ev.wh = prev[ev.unit].last_wh[1]
UpdateHigher == UpdateInitialized /\ ev.wh > prev[ev.unit].last_wh[1]
PrevHold == Get(prev[ev.unit].hold_until, 0)

\* C1: every wattage payload published is >= 0, and is >= the configured
\* minimum-power floor whenever the floor is > 0 and the value the publisher
\* was handed is > 0.
C1_PublishedAtLeastFloor ==
    \A i \in 1..Len(Powers) :
        /\ Powers[i].deci >= 0
        /\ (RatLt(RatZero, cfg.MIN_POWER_W) /\ RatLt(RatZero, Powers[i].raw))
               => Powers[i].deci * cfg.MIN_POWER_W[2] >= 10 * cfg.MIN_POWER_W[1]

\* C2: the system never reports a stale non-zero power indefinitely: whenever
\* the last published wattage of a unit with a stored reading is non-zero
\* (and messages with an unchanged reading keep arriving while the clock
\* advances, which LiveSpec states), a 0 wattage is eventually published for
\* the unit, under every configuration.
C2_StaleEventuallyZero ==
    \A u \in Single :
        (_units[u].last_wh # None /\ _units[u].last_w # None
             /\ _units[u].last_w # <<RatZero>>)
            ~> (_units[u].last_w = <<RatZero>>)

\* C3: an update for a unit with no stored reading publishes exactly one
\* wattage, 0, stores the reading and the time as the baseline and sets
\* hold_until to 0.
C3_FirstTickPublishesZero ==
    UpdateFirst =>
        /\ PowerDecis = <<0>>
        /\ _units[ev.unit].last_wh = <<ev.wh>>
        /\ _units[ev.unit].last_ts = <<now>>
        /\ _units[ev.unit].hold_until = <<0>>

\* A first update, with a floor configured and a positive reading, for a unit
\* whose record a fallback publish had created.
C3_Witness ==
    /\ UpdateFirst
    /\ prev[ev.unit].present /\ prev[ev.unit].last_w # None
    /\ prev[ev.unit].last_w # <<RatZero>>
    /\ cfg.MIN_POWER_W # RatZero
    /\ ev.wh > 0
    /\ PowerDecis = <<0>>

\* C4: an update whose reading is strictly lower than the stored one publishes
\* exactly one wattage, 0, replaces the baseline with (reading, now) and
\* clears the hold, whether or not a hold window was active.
C4_ResetPublishesZero ==
    UpdateLower =>
        /\ PowerDecis = <<0>>
        /\ _units[ev.unit].last_wh = <<ev.wh>>
        /\ _units[ev.unit].last_ts = <<now>>
        /\ _units[ev.unit].hold_until = <<0>>

\* A reset that arrived while the hold window was active.
C4_Witness ==
    /\ UpdateLower
    /\ PrevHold # 0 /\ now < PrevHold
    /\ _units[ev.unit].hold_until = <<0>>
    /\ PowerDecis = <<0>>

\* The wattage of an increase tick as C5 states it: numerator and
\* denominator of (energy_now - last_energy) * 3600 / max(0.5, now -
\* last_observed_at), raised to the floor if one is configured.
C5_Dt ==
    IF now - prev[ev.unit].last_ts[1] < DtFloor
    THEN DtFloor ELSE now - prev[ev.unit].last_ts[1]
C5_RawN == (ev.wh - prev[ev.unit].last_wh[1]) * SecondsPerHour * QuantaPerSecond
C5_RawD == C5_Dt
C5_Raised ==
    cfg.MIN_POWER_W # RatZero /\ C5_RawN * cfg.MIN_POWER_W[2] < cfg.MIN_POWER_W[1] * C5_RawD
C5_N == IF C5_Raised THEN cfg.MIN_POWER_W[1] ELSE C5_RawN
C5_D == IF C5_Raised THEN cfg.MIN_POWER_W[2] ELSE C5_RawD

\* C5 as stated: an increase tick publishes exactly that value and stores
\* (energy_now, now).
C5_PublishesQuotient ==
    UpdateHigher =>
        /\ Len(Powers) = 1
        /\ Powers[1].deci * C5_D = 10 * C5_N
        /\ _units[ev.unit].last_wh = <<ev.wh>>
        /\ _units[ev.unit].last_ts = <<now>>

\* C5, amended: an increase tick publishes that value rounded to one decimal
\* place (the payload is within 0.05 W of it), remembers the unrounded value
\* as the last published wattage, and stores (energy_now, now).
C5_PublishesRoundedQuotient ==
    UpdateHigher =>
        /\ Len(Powers) = 1
        /\ 2 * Abs(Powers[1].deci * C5_D - 10 * C5_N) <= C5_D
        /\ _units[ev.unit].last_w # None
        /\ _units[ev.unit].last_w[1][1] * C5_D = C5_N * _units[ev.unit].last_w[1][2]
        /\ _units[ev.unit].last_wh = <<ev.wh>>
        /\ _units[ev.unit].last_ts = <<now>>

\* An increase of 1 Wh read at a clock value before the stored timestamp:
\* the divisor is 0.5 s and 7200.0 W is published.
C5_Witness ==
    /\ UpdateHigher
    /\ now < prev[ev.unit].last_ts[1]
    /\ ev.wh - prev[ev.unit].last_wh[1] = 1
    /\ PowerDecis = <<72000>>
\* The unchanged-reading half of C6: with a hold window set, an update with
\* the same energy publishes 0 and clears the hold when now > hold_until, and
\* publishes nothing when now <= hold_until.
C6_Expiry ==
    (UpdateSame /\ PrevHold # 0) =>
        /\ now > PrevHold =>
               PowerDecis = <<0>> /\ _units[ev.unit].hold_until = <<0>>
        /\ now <= PrevHold => Powers = <<>>

\* C6 as stated: after an increase tick at time t with interval dt and margin
\* factor f, hold_until = t + dt * (1 + f); a later update with the same
\* energy after hold_until publishes 0 and clears the hold, one at or before
\* hold_until publishes nothing.
C6_HoldUntilLiteral ==
    /\ (UpdateHigher /\ cfg.MARGIN_FACTOR.k = "num") =>
           2 * _units[ev.unit].hold_until[1]
               = 2 * now + C5_Dt * (2 + cfg.MARGIN_FACTOR.twice)
    /\ C6_Expiry

\* C6, amended: hold_until = t + max(0, dt * (1 + f)); the rest as stated.
C6_HoldUntilClamped ==
    /\ (UpdateHigher /\ cfg.MARGIN_FACTOR.k = "num") =>
           2 * _units[ev.unit].hold_until[1]
               = 2 * now + (IF C5_Dt * (2 + cfg.MARGIN_FACTOR.twice) < 0
                            THEN 0 ELSE C5_Dt * (2 + cfg.MARGIN_FACTOR.twice))
    /\ C6_Expiry

\* With margin factor 0.5, an update with the same energy after the hold
\* window set by a tick has passed: 0 is published and the hold is cleared.
C6_Witness ==
    /\ cfg.MARGIN_FACTOR = FactorNum(1)
    /\ UpdateSame
    /\ PrevHold # 0 /\ now > PrevHold
    /\ 2 * (PrevHold - prev[ev.unit].last_ts[1]) >= 3 * DtFloor
    /\ PowerDecis = <<0>>
    /\ _units[ev.unit].hold_until = <<0>>

\* C7: an update with an energy value equal to the stored one, made while
\* now <= hold_until, publishes nothing and leaves last_energy_wh,
\* last_observed_at, hold_until and last_published_watts unchanged.
C7_NoOpWithinHold ==
    (UpdateSame /\ now <= PrevHold) =>
        /\ mqtt = <<>>
        /\ _units[ev.unit].last_wh = prev[ev.unit].last_wh
        /\ _units[ev.unit].last_ts = prev[ev.unit].last_ts
        /\ _units[ev.unit].hold_until = prev[ev.unit].hold_until
        /\ _units[ev.unit].last_w = prev[ev.unit].last_w

\* An unchanged reading within the hold window of a non-zero estimate, read
\* at a later clock value than the tick.
C7_Witness ==
    /\ UpdateSame
    /\ now <= PrevHold
    /\ now > prev[ev.unit].last_ts[1]
    /\ prev[ev.unit].last_w # <<RatZero>>
    /\ _units[ev.unit] = prev[ev.unit]

\* C8: while the unit's hold window is active (hold_until non-zero and
\* now <= hold_until) an auxiliary-signal message publishes no wattage; the
\* fallback publishes only when the hold is cleared or has expired.
C8_FallbackSuppressed ==
    ev.handler = "aux" =>
        /\ (PrevHold # 0 /\ now <= PrevHold) => Powers = <<>>
        /\ Powers # <<>> => (PrevHold = 0 \/ now > PrevHold)

\* The fallback is enabled and a well-formed auxiliary message arrives
\* within the hold window: nothing is published.
C8_Witness ==
    /\ cfg.ENABLE_COMP_FALLBACK
    /\ ev.handler = "aux" /\ ev.ok
    /\ PrevHold # 0 /\ now <= PrevHold
    /\ mqtt = <<>>

\* C9 as stated: for every unit a message has been handled for, the
\* announcement has been published exactly once (on the first message, and
\* never again).
C9_AnnouncedExactlyOnce == \A u \in seen : announced[u] = 1

\* C9, amended: the announcement is published at most once per unit: on the
\* first message that is an energy tick, or an auxiliary signal while the
\* fallback is enabled, and never again; an auxiliary signal handled while
\* the fallback is disabled publishes no announcement.
C9_AnnouncedAtMostOnce ==
    /\ \A u \in Units :
           /\ announced[u] <= 1
           /\ announced[u] = 1 <=> _units[u].discovered
    /\ (ev.handler = "energy" \/ (ev.handler = "aux" /\ cfg.ENABLE_COMP_FALLBACK)) =>
           /\ announced[ev.unit] = 1
           /\ Len(Configured) = (IF prev[ev.unit].discovered THEN 0 ELSE 1)
    /\ (ev.handler = "aux" /\ ~cfg.ENABLE_COMP_FALLBACK) => Configured = <<>>

\* A unit announced by its energy ticks gets an auxiliary message handled by
\* the enabled fallback: no second announcement.
C9_Witness ==
    /\ cfg.ENABLE_COMP_FALLBACK
    /\ ev.handler = "aux"
    /\ prev[ev.unit].discovered /\ prev[ev.unit].last_wh # None
    /\ announced[ev.unit] = 1
    /\ Configured = <<>>

\* C10: a message whose expected field cannot be converted is dropped: it
\* publishes nothing (no wattage, no announcement) and leaves the state
\* store unchanged.
C10_ParseFailureDropped ==
    (ev.handler \in {"energy", "aux"} /\ ~ev.ok) =>
        /\ mqtt = <<>>
        /\ _units = prev

\* The last message was handled for a unit the store held no record of.
FirstContact == ev.handler # "none" /\ ~prev[ev.unit].present

\* C11 as stated: the first message of a previously unseen unit publishes the
\* unit's announcement whichever classification it has, an energy tick or an
\* auxiliary signal, also when the fallback estimator is disabled.
C11_FirstContactAnnounces ==
    FirstContact =>
        /\ Len(Configured) = 1
        /\ Configured[1].unit = ev.unit
        /\ _units[ev.unit].discovered

\* C11, amended: the first message of a previously unseen unit publishes the
\* unit's announcement, ahead of anything else, when it is an energy tick or
\* an auxiliary signal handled while the fallback estimator is enabled; an
\* auxiliary signal handled while the fallback is disabled publishes nothing
\* and creates no record.
C11_FirstContactAnnouncesIfHandled ==
    FirstContact =>
        IF ev.handler = "energy" \/ cfg.ENABLE_COMP_FALLBACK
        THEN /\ Len(Configured) = 1
             /\ mqtt[1].kind = "config" /\ mqtt[1].unit = ev.unit
             /\ _units[ev.unit].discovered
        ELSE mqtt = <<>> /\ _units = prev

\* The first message of a unit is an auxiliary signal, the fallback is
\* enabled: the announcement is published, then the estimate.
C11_Witness ==
    /\ FirstContact
    /\ ev.handler = "aux" /\ cfg.ENABLE_COMP_FALLBACK
    /\ Len(mqtt) = 2
    /\ mqtt[1].kind = "config" /\ mqtt[2].kind = "power"

\* The hold duration the last increase tick has set, its interval dt being
\* C5_Dt; and what the two margin strategies give for dt (the first one
\* doubled).
C12_Hold == _units[ev.unit].hold_until[1] - now
C12_TwiceFactorHold ==
    IF C5_Dt * (2 + cfg.MARGIN_FACTOR.twice) < 0
    THEN 0 ELSE C5_Dt * (2 + cfg.MARGIN_FACTOR.twice)
C12_AdditiveHold ==
    IF C5_Dt + cfg.MARGIN_SECONDS_DEFAULT < 0
    THEN 0 ELSE C5_Dt + cfg.MARGIN_SECONDS_DEFAULT

\* C12 as stated: the hold duration set by an increase tick with interval dt
\* is max(0, dt * (1 + f)) whenever a margin factor f is configured,
\* regardless of the additive margin, and is max(0, dt + margin_seconds)
\* only when no margin factor is configured; it is never negative.
C12_HoldByConfiguredFactor ==
    UpdateHigher =>
        /\ cfg.MARGIN_FACTOR.k # "none" =>
               /\ cfg.MARGIN_FACTOR.k = "num"
               /\ 2 * C12_Hold = C12_TwiceFactorHold
        /\ cfg.MARGIN_FACTOR.k = "none" => C12_Hold = C12_AdditiveHold
        /\ C12_Hold >= 0

\* C12, amended: the hold duration is max(0, dt * (1 + f)) whenever the
\* configured margin factor converts to a number f, regardless of the
\* additive margin, and is max(0, dt + margin_seconds) when no margin factor
\* is configured or the configured one does not convert to a number; it is
\* never negative.
C12_HoldByUsableFactor ==
    UpdateHigher =>
        /\ cfg.MARGIN_FACTOR.k = "num" => 2 * C12_Hold = C12_TwiceFactorHold
        /\ cfg.MARGIN_FACTOR.k # "num" => C12_Hold = C12_AdditiveHold
        /\ C12_Hold >= 0

\* An increase tick under margin factor 0.5 and the default additive margin
\* of 300 s: the hold is 1.5 * dt, far from dt + 300 s.
C12_Witness ==
    /\ UpdateHigher
    /\ cfg.MARGIN_FACTOR = FactorNum(1)
    /\ cfg.MARGIN_SECONDS_DEFAULT = 300 * QuantaPerSecond
    /\ C5_Dt > DtFloor
    /\ 2 * C12_Hold = 3 * C5_Dt
    /\ C12_Hold # C12_AdditiveHold

\* C13: handling any message (energy tick or auxiliary signal) for unit A
\* leaves the record of every other unit B unchanged and publishes nothing on
\* B's wattage or announcement topic, for every interleaving of messages of
\* several units.
C13_OtherUnitsUntouched ==
    ev.handler # "none" =>
        \A b \in Units \ {ev.unit} :
            /\ _units[b] = prev[b]
            /\ \A i \in 1..Len(mqtt) :
                   Topic(mqtt[i]) \notin {StateTopic(b), CfgTopic(b)}

\* The first message of one unit publishes its announcement and a wattage
\* while another unit holds a non-zero estimate within its hold window.
C13_Witness ==
    /\ ev.handler # "none"
    /\ Len(mqtt) = 2
    /\ _units[ev.unit] # prev[ev.unit]
    /\ \E b \in Units \ {ev.unit} :
           /\ _units[b].last_w # None /\ _units[b].last_w # <<RatZero>>
           /\ Get(_units[b].hold_until, 0) > now

\* The payload of the last wattage message in M, if there is one.
LastPower(M) ==
    LET P == SelectSeq(M, LAMBDA m : m.kind = "power")
    IN  IF P = <<>> THEN None ELSE Some(P[Len(P)].deci)

\* C14: when one payload satisfies both classifications, the two handlers
\* are independent: with the fallback enabled and the same timestamp for
\* both, the resulting unit record and the last wattage published for the
\* unit are the same whichever handler runs first.
C14_HandlerOrderIrrelevant ==
    cfg.ENABLE_COMP_FALLBACK =>
        \A unit \in fleet, id \in IdChoices, wh \in WhChoices,
           comp \in CompChoices, fan \in FanChoices, t \in Readings :
            (comp.k # "absent" \/ fan.k # "absent") =>
                LET ec == EnergyThenComp(_units, unit, id, wh, comp, fan, t)
                    ce == CompThenEnergy(_units, unit, id, wh, comp, fan, t)
                IN  /\ ec.units[unit] = ce.units[unit]
                    /\ LastPower(ec.mqtt) = LastPower(ce.mqtt)

\* C15: in every reachable state of every unit, hold_until is either 0 or
\* >= the stored last_observed_at (it is only ever set to now + a
\* non-negative hold duration, for every margin factor, negative ones
\* included).
C15_HoldNotBeforeObservation ==
    \A u \in Units :
        _units[u].hold_until # None =>
            \/ _units[u].hold_until = <<0>>
            \/ /\ _units[u].last_ts # None
               /\ _units[u].hold_until[1] >= _units[u].last_ts[1]

\* An increase tick under margin factor -2, read later than the stored
\* timestamp: the hold duration is clamped to 0 and hold_until is the
\* timestamp of the tick.
C15_Witness ==
    /\ UpdateHigher
    /\ cfg.MARGIN_FACTOR = FactorNum(-4)
    /\ now > prev[ev.unit].last_ts[1]
    /\ _units[ev.unit].hold_until = <<now>>
    /\ _units[ev.unit].last_ts = <<now>>

\* C16: across any sequence of messages of a unit, the stored last_energy_wh
\* never decreases except in an update whose reading is strictly lower than
\* the stored one (a detected reset), and after every update that changes
\* it, it equals the reading of that update; nothing but an update changes
\* it.
C16_ReadingFollowsUpdates ==
    \A u \in Units :
        /\ prev[u].last_wh # None =>
               /\ _units[u].last_wh # None
               /\ _units[u].last_wh[1] < prev[u].last_wh[1] =>
                      (Update /\ ev.unit = u /\ ev.wh < prev[u].last_wh[1])
        /\ _units[u].last_wh # prev[u].last_wh =>
               (Update /\ ev.unit = u /\ _units[u].last_wh = <<ev.wh>>)

\* A reset read at a clock value before the stored timestamp, within the hold
\* window: the stored reading drops to the reading of the update.
C16_Witness ==
    /\ UpdateLower
    /\ now < prev[ev.unit].last_ts[1]
    /\ _units[ev.unit].last_wh[1] < prev[ev.unit].last_wh[1]
    /\ _units[ev.unit].last_wh = <<ev.wh>>

\* C17: handling an auxiliary-signal message never changes the estimation
\* fields of the unit record: last_energy_wh, last_observed_at and hold_until
\* are the same before and after, whether or not the fallback publishes.
C17_AuxKeepsEstimationFields ==
    ev.handler = "aux" =>
        /\ _units[ev.unit].last_wh = prev[ev.unit].last_wh
        /\ _units[ev.unit].last_ts = prev[ev.unit].last_ts
        /\ _units[ev.unit].hold_until = prev[ev.unit].hold_until

\* The fallback publishes a non-zero estimate after the hold window of a
\* tick has expired: the expired hold_until stays as it was.
C17_Witness ==
    /\ ev.handler = "aux"
    /\ Len(Powers) = 1 /\ Powers[1].deci > 0
    /\ PrevHold # 0 /\ now > PrevHold
    /\ _units[ev.unit].hold_until = <<PrevHold>>
    /\ _units[ev.unit].last_w # prev[ev.unit].last_w

\* C18: for every unit, no wattage is ever published before the unit's
\* announcement has been published: a wattage message of the last handler
\* invocation follows the announcement, published by an earlier message or
\* earlier in the same invocation, and every unit a wattage has been
\* published for has been announced.
C18_AnnouncedBeforeWattage ==
    /\ \A i \in 1..Len(mqtt) :
           mqtt[i].kind = "power" =>
               \/ prev[mqtt[i].unit].discovered
               \/ \E j \in 1..(i - 1) :
                      mqtt[j].kind = "config" /\ mqtt[j].unit = mqtt[i].unit
    /\ \A u \in Units : _units[u].last_w # None => announced[u] >= 1

\* The first message of a unit is an energy tick: the announcement, then
\* the wattage 0.
C18_Witness ==
    /\ FirstContact
    /\ ev.handler = "energy"
    /\ Len(mqtt) = 2
    /\ mqtt[1].kind = "config" /\ mqtt[2].kind = "power"
    /\ announced[ev.unit] = 1

\* C19: the expiry zero is published once: after a no-change update has
\* published 0 and cleared the hold, the hold stays cleared and every further
\* update with the same energy publishes nothing and changes nothing, at
\* any later time, until an update with a different reading arrives;
\* last_energy_wh and last_observed_at are never changed by a no-change
\* update.
C19_ExpiryZeroOnce ==
    /\ \A u \in Units :
           /\ zeros[u] <= 1
           /\ zeros[u] = 1 => _units[u].hold_until = <<0>>
    /\ (UpdateSame /\ PrevHold = 0) => (mqtt = <<>> /\ _units = prev)
    /\ UpdateSame =>
           /\ _units[ev.unit].last_wh = prev[ev.unit].last_wh
           /\ _units[ev.unit].last_ts = prev[ev.unit].last_ts

\* A further update with the same energy, at a later clock reading, after
\* the expiry zero of the unit has been published: nothing is published.
C19_Witness ==
    /\ UpdateSame
    /\ zeros[ev.unit] = 1
    /\ PrevHold = 0
    /\ now > prev[ev.unit].last_ts[1]
    /\ mqtt = <<>>
    /\ _units = prev

\* C20: with the fallback estimator disabled, in every reachable state of
\* every unit with a stored reading, a non-zero last published wattage
\* implies that hold_until is non-zero: whenever the hold is cleared (first
\* tick, reset, expiry) the value last published for the unit is 0.
C20_NonZeroOnlyWithinHold ==
    ~cfg.ENABLE_COMP_FALLBACK =>
        \A u \in Units :
            _units[u].last_wh # None =>
                /\ _units[u].last_w # None
                /\ _units[u].last_w # <<RatZero>> =>
                       Get(_units[u].hold_until, 0) # 0
                /\ Get(_units[u].hold_until, 0) = 0 =>
                       _units[u].last_w = <<RatZero>>

\* The fallback is disabled and an auxiliary message arrives after the hold
\* window of a tick has passed: the estimate of the tick is still the last
\* value published, and hold_until is still set.
C20_Witness ==
    /\ ~cfg.ENABLE_COMP_FALLBACK
    /\ ev.handler = "aux"
    /\ _units[ev.unit].last_wh # None
    /\ _units[ev.unit].last_w # <<RatZero>>
    /\ PrevHold # 0 /\ now > PrevHold
    /\ _units[ev.unit].hold_until = <<PrevHold>>

====
